---------------------------- MODULE Spec2Model ----------------------------
(***************************************************************************)
(* A model of scraper_base: WebDriverBuilder (driver_builder.py) and       *)
(* CookieStorage (cookie_storage.py).                                      *)
(*                                                                         *)
(* The external collaborators (webdriver.Remote, webdriver.Chrome,         *)
(* ChromeDriverManager.install, os.system, time.sleep, the WebDriver       *)
(* handle, the file system, pickle) are the environment: every call to one *)
(* of them is one step, its outcome (success or failure) is chosen         *)
(* nondeterministically, and the call is recorded in the caller's log.     *)
(* The handle operations implicitly_wait, execute_script and refresh are   *)
(* taken to return normally.                                               *)
(***************************************************************************)
EXTENDS Integers, Sequences, FiniteSets, TLC

VARIABLES
    self,       \* the WebDriverBuilder instance: its configuration fields
    call,       \* per build() call: position, arguments, locals, outcome
    log,        \* per build() call: the collaborator calls made, in order
    handles,    \* the WebDriver handles created so far, by id
    file,       \* the content of CookieStorage.location, or NoFile
    jar,        \* per session (WebDriver): the cookies it holds
    rejects,    \* per session: cookie names add_cookie raises for
    sv,         \* the save() call in progress / last finished
    ld,         \* the load() call in progress / last finished
    ops         \* number of CookieStorage calls started so far

vars == <<self, call, log, handles, file, jar, rejects, sv, ld, ops>>
builderVars == <<self, call, log, handles>>
cookieVars == <<file, jar, rejects, sv, ld, ops>>

---------------------------------------------------------------------------
(* Python values *)

\* driver = None (a handle id is >= 1)
None == 0

\* Python truthiness of an optional string: None and "" are falsy
Truthy(s) == s \notin {"None", ""}

---------------------------------------------------------------------------
(* WebDriverBuilder: constants and constructor *)

\* class DriverType(str, Enum)
DriverType == {"chrome", "chromium", "standalone"}

\* a value build() may be handed that is no DriverType member
Unrecognized == "firefox"

\* remote_port: int = 4444
DefaultRemotePort == 4444

\* implicit_wait_time: int = 10
DefaultImplicitWait == 10

\* retry_count: int = 3
DefaultRetryCount == 3

\* retry_delay: int = 5
DefaultRetryDelay == 5

\* STANDALONE_LOCAL_URL = "http://localhost:4444"
STANDALONE_LOCAL_URL == [scheme |-> "http", host |-> "localhost", port |-> 4444]

\* "http://localhost:7900/?autoconnect=1&resize=scale&password=secret"
standalone_url == [scheme |-> "http", host |-> "localhost", port |-> 7900]

\* the values the constructor arguments are drawn from
Ports == {DefaultRemotePort, DefaultRemotePort + 1}
WaitTimes == {0, DefaultImplicitWait}
Agents == {"", "Mozilla"}
Directories == {"None", "", "/tmp/dl"}

\* __init__: the builder stores its arguments
Builders ==
    [remote_port : Ports,
     show_browser : BOOLEAN,
     container : BOOLEAN,
     implicit_wait_time : WaitTimes,
     stealth_mode : BOOLEAN,
     agent : Agents,
     download_directory : Directories]

\* the concurrent callers of build() on one builder
Calls == {"c1", "c2"}


---------------------------------------------------------------------------
(* WebDriverBuilder: pure helpers *)

\* _chrome_options with the headless test inverted (`if self.show_browser:`)
_chrome_options_headless_inverted(s) ==
    [arguments |->
        (IF s.show_browser THEN <<"--headless">> ELSE <<>>)
        \o (IF s.container
            THEN <<"--no-sandbox", "--disable-dev-shm-usage", "--disable-gpu">>
            ELSE <<>>)
        \o (IF Truthy(s.agent) THEN <<"user-agent=" \o s.agent>> ELSE <<>>),
     experimental_options |->
        (IF Truthy(s.download_directory)
         THEN {[key |-> "prefs", value |-> s.download_directory]}
         ELSE {})
        \cup (IF s.stealth_mode
              THEN {[key |-> "excludeSwitches", value |-> "enable-automation"],
                    [key |-> "useAutomationExtension", value |-> "False"]}
              ELSE {})]

\* _chrome_options: the launch options derived from the builder's fields
_chrome_options(s) ==
    [arguments |->
        (IF ~s.show_browser THEN <<"--headless">> ELSE <<>>)
        \o (IF s.container
            THEN <<"--no-sandbox", "--disable-dev-shm-usage", "--disable-gpu">>
            ELSE <<>>)
        \o (IF Truthy(s.agent) THEN <<"user-agent=" \o s.agent>> ELSE <<>>),
     experimental_options |->
        (IF Truthy(s.download_directory)
         THEN {[key |-> "prefs", value |-> s.download_directory]}
         ELSE {})
        \cup (IF s.stealth_mode
              THEN {[key |-> "excludeSwitches", value |-> "enable-automation"],
                    [key |-> "useAutomationExtension", value |-> "False"]}
              ELSE {})]

\* no launch options at all
NoOptions == [arguments |-> <<>>, experimental_options |-> {}]

\* a freshly created WebDriver, its browser started with the given options:
\* nothing configured yet
NewHandle(c, options) ==
    [owner |-> c, options |-> options, implicit_wait |-> 0,
     implicitly_wait_calls |-> 0, execute_script_calls |-> 0]

\* a builder that keeps one driver and hands it out again
NewDriverId_reused(hs) == IF Len(hs) > 0 THEN Len(hs) ELSE 1

\* webdriver.Chrome(...) / webdriver.Remote(url) return a new object each
\* time: its id, given the handles that exist
NewDriverId(hs) == Len(hs) + 1

\* the remote session requested with the translated launch options
\* (`webdriver.Remote(url, options=self._chrome_options)`)
RemoteOptions_translated(s) == _chrome_options(s)

\* webdriver.Remote(url): the url is the only argument, no options are sent
RemoteOptions(s) == NoOptions

\* _build_chrome called without chrome_type for Chromium
ChromeTypeOf_always_google(t) == "GOOGLE"

\* the chrome_type _build_chrome is called with: ChromeType.GOOGLE by
\* default, ChromeType.CHROMIUM for DriverType.Chromium
ChromeTypeOf(t) == IF t = "chromium" THEN "CHROMIUM" ELSE "GOOGLE"

\* the debug view opened whatever show_browser says
OpensDebugView_always(s) == TRUE

\* `if self.show_browser:` of the Standalone case
OpensDebugView(s) == s.show_browser

\* _config_driver with the wait applied whatever implicit_wait_time is
\* (`>= 0` for `> 0`)
_config_driver_always_waits(s, d) ==
    LET waited == [d EXCEPT !.implicit_wait = s.implicit_wait_time,
                            !.implicitly_wait_calls = @ + 1]
    IN  IF s.stealth_mode
        THEN [waited EXCEPT !.execute_script_calls = @ + 1]
        ELSE waited

\* _config_driver: the post-creation configuration of one handle
_config_driver(s, d) ==
    LET waited == IF s.implicit_wait_time > 0
                  THEN [d EXCEPT !.implicit_wait = s.implicit_wait_time,
                                 !.implicitly_wait_calls = @ + 1]
                  ELSE d
    IN  IF s.stealth_mode
        THEN [waited EXCEPT !.execute_script_calls = @ + 1]
        ELSE waited

\* the guard written `retry_count < 0`: one more attempt, at retry_count 0
RetryExhausted_off_by_one(retry_count) == retry_count < 0

\* `if retry_count <= 0: return None`
RetryExhausted(retry_count) == retry_count <= 0

\* `if not driver:` (a WebDriver object is truthy, None is not)
NotDriver(driver) == driver = None

\* the recursive call made with retry_count unchanged
NextRetryCount_not_decremented(retry_count) == retry_count

\* `retry_count=retry_count - 1` of the recursive call
NextRetryCount(retry_count) == retry_count - 1

\* the sleep taken from the delay parameter (`time.sleep(retry_delay)`)
SleepSeconds_uses_delay(retry_count, retry_delay) == retry_delay

\* `time.sleep(retry_count)`
SleepSeconds(retry_count, retry_delay) == retry_count

\* the url build() hands to _build_remote
RemoteUrl(s) == STANDALONE_LOCAL_URL

\* outcomes of a call
\* (exc is the exception's class, args the arguments it was raised with:
\* `raise WebDriverBuilder.RemoteDriverTimeout` gives it none, and build adds
\* nothing to an exception of the installer or of the launch)
Pending == [kind |-> "pending", driver |-> None, exc |-> "", args |-> <<>>]
Return(d) == [kind |-> "return", driver |-> d, exc |-> "", args |-> <<>>]
Raise(e) == [kind |-> "raise", driver |-> None, exc |-> e, args |-> <<>>]

\* falling off the end of `match driver_type` returns None
NoCaseMatched(k) == [k EXCEPT !.pc = "done", !.result = Return(None)]

\* build() without its `if not driver: raise`: whatever _build_remote
\* returned is returned
StandaloneReturn_no_raise(k, driver) ==
    [k EXCEPT !.pc = "done", !.result = Return(driver)]

\* build() with the test inverted (`if driver: raise`)
StandaloneReturn_inverted(k, driver) ==
    IF driver # None
    THEN [k EXCEPT !.pc = "done", !.result = Raise("RemoteDriverTimeout")]
    ELSE [k EXCEPT !.pc = "done", !.result = Return(driver)]

\* build(), Standalone case, after _build_remote has returned `driver`
StandaloneReturn(k, driver) ==
    IF NotDriver(driver)
    THEN [k EXCEPT !.pc = "done", !.result = Raise("RemoteDriverTimeout")]
    ELSE [k EXCEPT !.pc = "done", !.result = Return(driver)]

\* entering a _build_remote frame with the given retry_count; what the
\* innermost frame returns is handed up unchanged to build()
_build_remote(k, retry_count) ==
    IF RetryExhausted(retry_count)
    THEN StandaloneReturn(k, None)
    ELSE [k EXCEPT !.pc = "connect", !.retry_count = retry_count]

IdleCall ==
    [pc |-> "idle", driver_type |-> "", chrome_type |-> "",
     options |-> NoOptions,
     url |-> STANDALONE_LOCAL_URL, retry_count |-> 0, retry_delay |-> 0,
     driver |-> None, result |-> Pending]

Event(ev, arg, ok) == [ev |-> ev, arg |-> arg, ok |-> ok]

---------------------------------------------------------------------------
(* WebDriverBuilder: the steps of one build() call *)

\* build(driver_type): the match statement
Build(c, t) ==
    /\ call[c].pc = "idle"
    /\ LET k == [call[c] EXCEPT !.driver_type = t] IN
       call' = [call EXCEPT ![c] =
            CASE t = "chrome" ->
                    [k EXCEPT !.pc = "install", !.chrome_type = ChromeTypeOf(t),
                              !.options = _chrome_options(self)]
              [] t = "chromium" ->
                    [k EXCEPT !.pc = "install", !.chrome_type = ChromeTypeOf(t),
                              !.options = _chrome_options(self)]
              [] t = "standalone" ->
                    IF OpensDebugView(self)
                    THEN [k EXCEPT !.pc = "open"]
                    ELSE _build_remote([k EXCEPT !.url = RemoteUrl(self),
                                                 !.retry_delay = DefaultRetryDelay],
                                       DefaultRetryCount)
              [] OTHER -> NoCaseMatched(k)]
    /\ UNCHANGED <<self, log, handles>>
    /\ UNCHANGED cookieVars

\* os.system(f"open '{standalone_url}'"): the exit status is ignored
OpenDebug(c) ==
    /\ call[c].pc = "open"
    /\ \E ok \in BOOLEAN :
          log' = [log EXCEPT ![c] = Append(@, Event("open", standalone_url, ok))]
    /\ call' = [call EXCEPT ![c] =
          _build_remote([@ EXCEPT !.url = RemoteUrl(self),
                                  !.retry_delay = DefaultRetryDelay],
                        DefaultRetryCount)]
    /\ UNCHANGED <<self, handles>>
    /\ UNCHANGED cookieVars

\* try: driver = webdriver.Remote(url) / except: driver = None / if not driver
Connect(c) ==
    /\ call[c].pc = "connect"
    /\ \E ok \in BOOLEAN :
          LET driver == IF ok THEN NewDriverId(handles) ELSE None IN
          /\ log' = [log EXCEPT ![c] = Append(@, Event("connect", call[c].url, ok))]
          /\ handles' = IF ok
                        THEN Append(handles, NewHandle(c, RemoteOptions(self)))
                        ELSE handles
          /\ call' = [call EXCEPT ![c] =
                IF NotDriver(driver)
                THEN [@ EXCEPT !.pc = "sleep", !.driver = driver]
                ELSE [@ EXCEPT !.pc = "config", !.driver = driver]]
    /\ UNCHANGED self
    /\ UNCHANGED cookieVars

\* time.sleep(retry_count); return self._build_remote(url, retry_count - 1)
Sleep(c) ==
    /\ call[c].pc = "sleep"
    /\ log' = [log EXCEPT ![c] = Append(@,
          Event("sleep", SleepSeconds(call[c].retry_count, call[c].retry_delay), TRUE))]
    /\ call' = [call EXCEPT ![c] = _build_remote(@, NextRetryCount(@.retry_count))]
    /\ UNCHANGED <<self, handles>>
    /\ UNCHANGED cookieVars

\* path = ChromeDriverManager(chrome_type=chrome_type).install()
Install(c) ==
    /\ call[c].pc = "install"
    /\ \E ok \in BOOLEAN :
          /\ log' = [log EXCEPT ![c] = Append(@, Event("install", call[c].chrome_type, ok))]
          /\ call' = [call EXCEPT ![c] =
                IF ok THEN [@ EXCEPT !.pc = "launch"]
                ELSE [@ EXCEPT !.pc = "done", !.result = Raise("InstallError")]]
    /\ UNCHANGED <<self, handles>>
    /\ UNCHANGED cookieVars

\* driver = webdriver.Chrome(options=options, service=service)
Launch(c) ==
    /\ call[c].pc = "launch"
    /\ \E ok \in BOOLEAN :
          /\ log' = [log EXCEPT ![c] = Append(@, Event("launch", call[c].options, ok))]
          /\ handles' = IF ok
                        THEN Append(handles, NewHandle(c, call[c].options))
                        ELSE handles
          /\ call' = [call EXCEPT ![c] =
                IF ok THEN [@ EXCEPT !.pc = "config", !.driver = NewDriverId(handles)]
                ELSE [@ EXCEPT !.pc = "done", !.result = Raise("LaunchError")]]
    /\ UNCHANGED self
    /\ UNCHANGED cookieVars

\* self._config_driver(driver); return driver (and build()'s own return)
Config(c) ==
    /\ call[c].pc = "config"
    /\ handles' = [handles EXCEPT ![call[c].driver] = _config_driver(self, @)]
    /\ call' = [call EXCEPT ![c] =
          IF @.driver_type = "standalone"
          THEN StandaloneReturn(@, @.driver)
          ELSE [@ EXCEPT !.pc = "done", !.result = Return(@.driver)]]
    /\ UNCHANGED <<self, log>>
    /\ UNCHANGED cookieVars

\* one step of a build() call that is under way
Step(c) ==
    \/ OpenDebug(c)
    \/ Connect(c)
    \/ Sleep(c)
    \/ Install(c)
    \/ Launch(c)
    \/ Config(c)

---------------------------------------------------------------------------
(* CookieStorage: the data *)

\* number of CookieStorage calls one run makes
MaxOps == 3

\* the sessions (WebDriver handles) CookieStorage is used with
Sessions == {"s1", "s2"}

CookieNames == {"sid", "csrf"}
CookieValues == {"v1", "v2"}

\* one cookie dict as driver.get_cookies() reports it
Cookie == [name : CookieNames, value : CookieValues]

\* a browser's cookie jar holds at most one cookie per name
Jars == {j \in SUBSET Cookie : \A x, y \in j : x.name = y.name => x = y}

\* the lists that enumerate a jar, in any order
Orderings(j) ==
    {l \in [1..Cardinality(j) -> j] : \A a, b \in 1..Cardinality(j) : l[a] = l[b] => a = b}

\* the set of the elements of a list
Range(l) == {l[i] : i \in 1..Len(l)}

\* the file at self.location
NoFile == [exists |-> FALSE, bytes |-> <<>>]
FileWith(bytes) == [exists |-> TRUE, bytes |-> bytes]

\* pickle opcodes
Op(op) == [op |-> op, name |-> "", value |-> ""]
Item(cookie) == [op |-> "ITEM", name |-> cookie.name, value |-> cookie.value]

\* pickle.dump of a list of cookie dicts: the opcode stream written
dumps(cookies) ==
    <<Op("PROTO"), Op("EMPTY_LIST")>>
    \o (IF cookies = <<>>
        THEN <<>>
        ELSE <<Op("MARK")>> \o [i \in 1..Len(cookies) |-> Item(cookies[i])]
             \o <<Op("APPENDS")>>)
    \o <<Op("STOP")>>

\* the position of the first STOP opcode of a stream, 0 when it has none
FirstStop(bytes) ==
    IF \E i \in 1..Len(bytes) : bytes[i].op = "STOP"
    THEN CHOOSE i \in 1..Len(bytes) :
            /\ bytes[i].op = "STOP"
            /\ \A j \in 1..(i - 1) : bytes[j].op # "STOP"
    ELSE 0

\* pickle.load: the list an opcode stream decodes to, or a failure
\* (EOFError / UnpicklingError) when the stream holds no complete pickle;
\* reading ends at the first STOP, what follows it is not looked at
loads(bytes) ==
    LET n == FirstStop(bytes)
        bad == [ok |-> FALSE, value |-> <<>>]
    IN  IF n < 3 \/ bytes[1].op # "PROTO" \/ bytes[2].op # "EMPTY_LIST"
             \/ bytes[n].op # "STOP"
        THEN bad
        ELSE IF n = 3 THEN [ok |-> TRUE, value |-> <<>>]
        ELSE IF /\ n >= 5
                /\ bytes[3].op = "MARK"
                /\ bytes[n - 1].op = "APPENDS"
                /\ \A i \in 4..(n - 2) : bytes[i].op = "ITEM"
        THEN [ok |-> TRUE,
              value |-> [i \in 1..(n - 5) |->
                            [name |-> bytes[i + 3].name, value |-> bytes[i + 3].value]]]
        ELSE bad

\* load without its `if not cookies: return False`
NotCookies_unchecked(cookies) == FALSE

\* `if not cookies:` (an empty list is falsy)
NotCookies(cookies) == cookies = <<>>

\* driver.add_cookie(cookie) on a jar: a cookie of that name is replaced
add_cookie(j, cookie) == {x \in j : x.name # cookie.name} \cup {cookie}

\* outcomes of a CookieStorage call
CPending == [kind |-> "pending", value |-> FALSE, exc |-> ""]
CReturn(v) == [kind |-> "return", value |-> v, exc |-> ""]
CRaise(e) == [kind |-> "raise", value |-> FALSE, exc |-> e]

\* `op` numbers the calls in the order they were made
IdleSave ==
    [pc |-> "idle", op |-> 0, driver |-> "s1", cookies |-> <<>>, before |-> NoFile,
     result |-> CPending]
IdleLoad ==
    [pc |-> "idle", op |-> 0, driver |-> "s1", refresh |-> FALSE, cookies |-> <<>>, i |-> 0,
     before |-> {}, calls |-> <<>>, overlapped |-> FALSE,
     observed |-> [read |-> FALSE, bytes |-> <<>>], result |-> CPending]

DriverCall(ev, cookie, ok) == [ev |-> ev, cookie |-> cookie, ok |-> ok]

\* CookieStorage calls on one location are serialized by the caller
NoOpRunning == sv.pc \in {"idle", "done"} /\ ld.pc \in {"idle", "done"}

---------------------------------------------------------------------------
(* CookieStorage.save *)

\* save written with the file opened before the cookies are read
\* (`with open(...) as f: pickle.dump(driver.get_cookies(), f)`)
FileAtCapture_opened_first(f) == FileWith(<<>>)

\* the file f while driver.get_cookies() runs: line 17 comes before the
\* open of line 18, so it has not been touched
FileAtCapture(f) == f

\* save(driver): cookies = driver.get_cookies(); ld.overlapped notes a save
\* that begins while a load is under way
SaveCall(s) ==
    /\ sv.pc \in {"idle", "done"}
    /\ ops < MaxOps
    /\ ops' = ops + 1
    /\ \E ok \in BOOLEAN :
          IF ok
          THEN \E cookies \in Orderings(jar[s]) :
                  sv' = [pc |-> "open", op |-> ops + 1, driver |-> s,
                         cookies |-> cookies, before |-> file, result |-> CPending]
          ELSE sv' = [pc |-> "done", op |-> ops + 1, driver |-> s, cookies |-> <<>>,
                      before |-> file, result |-> CRaise("WebDriverException")]
    /\ file' = FileAtCapture(file)
    /\ ld' = [ld EXCEPT !.overlapped = @ \/ ld.pc \notin {"idle", "done"}]
    /\ UNCHANGED <<jar, rejects>>
    /\ UNCHANGED builderVars

\* save(driver) called while no other CookieStorage call is under way
Save(s) == NoOpRunning /\ SaveCall(s)

\* mode "ab" for "wb": the file keeps what it held
OpenForWrite_append(f) == FileWith(f.bytes)

\* open(self.location, "wb") on the file f: it is created or truncated
OpenForWrite(f) == FileWith(<<>>)

\* open(self.location, "wb"): creates or truncates the file
SaveOpen ==
    /\ sv.pc = "open"
    /\ \E ok \in BOOLEAN :
          IF ok
          THEN /\ file' = OpenForWrite(file)
               /\ sv' = [sv EXCEPT !.pc = "dump"]
          ELSE /\ file' = file
               /\ sv' = [sv EXCEPT !.pc = "done", !.result = CRaise("OSError")]
    /\ UNCHANGED <<jar, rejects, ld, ops>>
    /\ UNCHANGED builderVars

\* save calling pickle.dumps(cookies): nothing reaches the opened file
Written_nothing(f, cookies) == f

\* the opened file f after pickle.dump(cookies, file=...) and its close
Written(f, cookies) == FileWith(f.bytes \o dumps(cookies))

\* pickle.dump(cookies, file=...): the blob is written and the file closed
SaveDump ==
    /\ sv.pc = "dump"
    /\ file' = Written(file, sv.cookies)
    /\ sv' = [sv EXCEPT !.pc = "done", !.result = CReturn(TRUE)]
    /\ UNCHANGED <<jar, rejects, ld, ops>>
    /\ UNCHANGED builderVars

---------------------------------------------------------------------------
(* CookieStorage.load *)

\* load(driver, refresh): open(self.location, "rb"); a missing file raises
\* FileNotFoundError, which load catches and answers with False
LoadCall(s, refresh) ==
    /\ ld.pc \in {"idle", "done"}
    /\ ops < MaxOps
    /\ ops' = ops + 1
    /\ LET l == [IdleLoad EXCEPT !.op = ops + 1, !.driver = s, !.refresh = refresh,
                                 !.before = jar[s],
                                 !.overlapped = sv.pc \notin {"idle", "done"}] IN
       ld' = IF file.exists
             THEN [l EXCEPT !.pc = "read"]
             ELSE [l EXCEPT !.pc = "done", !.result = CReturn(FALSE)]
    /\ UNCHANGED <<file, jar, rejects, sv>>
    /\ UNCHANGED builderVars

\* load(driver, refresh) called while no other CookieStorage call is under way
Load(s, refresh) == NoOpRunning /\ LoadCall(s, refresh)


\* load refreshing whatever the refresh flag says
AfterLoop_always_refreshes(l) == [l EXCEPT !.pc = "refresh"]

\* what follows the for loop: `if refresh: driver.refresh()` / `return True`
AfterLoop(l) ==
    IF l.refresh
    THEN [l EXCEPT !.pc = "refresh"]
    ELSE [l EXCEPT !.pc = "done", !.result = CReturn(TRUE)]

\* a loop that stops one cookie early
ForLoop_skips_last(l) ==
    IF l.i < Len(l.cookies)
    THEN [l EXCEPT !.pc = "add"]
    ELSE AfterLoop(l)

\* `for cookie in cookies:` with l.i the position of the next cookie
ForLoop(l) ==
    IF l.i <= Len(l.cookies)
    THEN [l EXCEPT !.pc = "add"]
    ELSE AfterLoop(l)

\* an exception raised by driver.add_cookie inside load's try block: the
\* only handler is `except FileNotFoundError`, so it leaves load
AddCookieFailed(l) ==
    [l EXCEPT !.pc = "done", !.result = CRaise("WebDriverException")]

\* cookies = pickle.load(...); if not cookies: return False
\* (ld.observed keeps the bytes that were read)
LoadRead ==
    /\ ld.pc = "read"
    /\ LET r == loads(file.bytes)
           l == [ld EXCEPT !.observed = [read |-> TRUE, bytes |-> file.bytes]]
       IN
       ld' = IF ~r.ok
             THEN [l EXCEPT !.pc = "done", !.result = CRaise("UnpicklingError")]
             ELSE IF NotCookies(r.value)
             THEN [l EXCEPT !.pc = "done", !.result = CReturn(FALSE)]
             ELSE ForLoop([l EXCEPT !.cookies = r.value, !.i = 1])
    /\ UNCHANGED <<file, jar, rejects, sv, ops>>
    /\ UNCHANGED builderVars

\* for cookie in cookies: driver.add_cookie(cookie)   (one iteration)
LoadAddCookie ==
    /\ ld.pc = "add"
    /\ LET cookie == ld.cookies[ld.i]
           ok == cookie.name \notin rejects[ld.driver]
           l == [ld EXCEPT !.calls = Append(@, DriverCall("add_cookie", cookie, ok))]
       IN  IF ok
           THEN /\ jar' = [jar EXCEPT ![ld.driver] = add_cookie(@, cookie)]
                /\ ld' = ForLoop([l EXCEPT !.i = @ + 1])
           ELSE /\ jar' = jar
                /\ ld' = AddCookieFailed(l)
    /\ UNCHANGED <<file, rejects, sv, ops>>
    /\ UNCHANGED builderVars

\* driver.refresh(); return True
LoadRefresh ==
    /\ ld.pc = "refresh"
    /\ ld' = [ld EXCEPT !.pc = "done", !.result = CReturn(TRUE),
                        !.calls = Append(@, DriverCall("refresh", [name |-> "", value |-> ""], TRUE))]
    /\ UNCHANGED <<file, jar, rejects, sv, ops>>
    /\ UNCHANGED builderVars

---------------------------------------------------------------------------
(* Specifications *)

InitBuilderIdle ==
    /\ call = [c \in Calls |-> IdleCall]
    /\ log = [c \in Calls |-> <<>>]
    /\ handles = <<>>

InitCookieIdle ==
    /\ file = NoFile
    /\ sv = IdleSave
    /\ ld = IdleLoad
    /\ ops = 0

\* a builder constructed with any arguments; no build() call made yet
InitBuild ==
    /\ self \in Builders
    /\ InitBuilderIdle
    /\ InitCookieIdle
    /\ jar = [s \in Sessions |-> {}]
    /\ rejects = [s \in Sessions |-> {}]

\* one caller builds one driver
NextBuild ==
    \/ \E t \in DriverType \cup {Unrecognized} : Build("c1", t)
    \/ OpenDebug("c1")
    \/ Connect("c1")
    \/ Sleep("c1")
    \/ Install("c1")
    \/ Launch("c1")
    \/ Config("c1")

SpecBuild == InitBuild /\ [][NextBuild]_vars

\* two callers use the one builder at the same time
NextBuildConcurrent ==
    \/ \E c \in Calls, t \in DriverType \cup {Unrecognized} : Build(c, t)
    \/ \E c \in Calls : OpenDebug(c)
    \/ \E c \in Calls : Connect(c)
    \/ \E c \in Calls : Sleep(c)
    \/ \E c \in Calls : Install(c)
    \/ \E c \in Calls : Launch(c)
    \/ \E c \in Calls : Config(c)

SpecBuildConcurrent == InitBuild /\ [][NextBuildConcurrent]_vars

\* a call under way keeps running: every collaborator call returns
FairSpecBuild == SpecBuild /\ WF_vars(Step("c1"))

\* a session that has browsed (s1) and one that is fresh or nearly so (s2),
\* no file stored yet
InitCookie ==
    /\ self = [remote_port |-> DefaultRemotePort, show_browser |-> FALSE,
               container |-> FALSE, implicit_wait_time |-> DefaultImplicitWait,
               stealth_mode |-> FALSE, agent |-> "", download_directory |-> "None"]
    /\ InitBuilderIdle
    /\ InitCookieIdle
    /\ jar \in [Sessions -> Jars]
    /\ Cardinality(jar["s2"]) <= 1
    /\ rejects \in [Sessions -> SUBSET CookieNames]

NextCookie ==
    \/ \E s \in Sessions : Save(s)
    \/ SaveOpen
    \/ SaveDump
    \/ \E s \in Sessions, refresh \in BOOLEAN : Load(s, refresh)
    \/ LoadRead
    \/ LoadAddCookie
    \/ LoadRefresh

SpecCookie == InitCookie /\ [][NextCookie]_vars

\* a save and a load on the one location that the caller does not
\* serialize: either may begin while the other is under way
NextCookieConcurrent ==
    \/ \E s \in Sessions : SaveCall(s)
    \/ SaveOpen
    \/ SaveDump
    \/ \E s \in Sessions, refresh \in BOOLEAN : LoadCall(s, refresh)
    \/ LoadRead
    \/ LoadAddCookie
    \/ LoadRefresh

\* the same sessions, none of which refuses a cookie (insertion failures
\* play no part in how the file is read and written)
InitCookieConcurrent ==
    /\ InitCookie
    /\ rejects = [s \in Sessions |-> {}]

SpecCookieConcurrent == InitCookieConcurrent /\ [][NextCookieConcurrent]_vars

---------------------------------------------------------------------------
(* Reading a build() call's log *)

\* the events of one kind a call has logged, in order
Events(c, ev) == SelectSeq(log[c], LAMBDA e : e.ev = ev)

\* number of connection attempts the call has made
Attempts(c) == Len(Events(c, "connect"))

\* the call has ended by raising RemoteDriverTimeout
Exhausted(c) ==
    call[c].pc = "done" /\ call[c].result = Raise("RemoteDriverTimeout")

\* the call has ended by returning a live handle
Succeeded(c) ==
    /\ call[c].pc = "done"
    /\ call[c].result.kind = "return"
    /\ call[c].result.driver # None

\* the handles created on behalf of a call
HandlesOf(c) == {h \in 1..Len(handles) : handles[h].owner = c}

\* a build(Standalone) call that has started
Remote(c) == call[c].pc # "idle" /\ call[c].driver_type = "standalone"

---------------------------------------------------------------------------
(* C1 *)

\* C1 as stated: a build(Standalone) call that ends in exhaustion has made
\* exactly retryCount + 1 connection attempts (one in every state
\* Attempting(n), n = retryCount down to 0).
C1_ExhaustionAfterNPlusOneAttempts ==
    \A c \in Calls :
        Exhausted(c) => Attempts(c) = DefaultRetryCount + 1

\* C1 amended: a connection attempt is made in every state Attempting(n) for
\* n = retryCount down to 1 and none at n = 0: while the call is about to
\* attempt, n is in 1..retryCount and retryCount - n attempts have been made,
\* all failed; a call that ends in exhaustion has made exactly retryCount
\* attempts, all failed.
C1_ExhaustionAfterNAttempts ==
    \A c \in Calls :
        Remote(c) =>
            /\ call[c].pc = "connect" =>
                  /\ call[c].retry_count \in 1..DefaultRetryCount
                  /\ Attempts(c) = DefaultRetryCount - call[c].retry_count
                  /\ \A i \in 1..Attempts(c) : ~Events(c, "connect")[i].ok
            /\ call[c].pc = "sleep" =>
                  /\ call[c].retry_count \in 1..DefaultRetryCount
                  /\ Attempts(c) = DefaultRetryCount - call[c].retry_count + 1
            /\ Exhausted(c) =>
                  /\ Attempts(c) = DefaultRetryCount
                  /\ \A i \in 1..Attempts(c) : ~Events(c, "connect")[i].ok

\* an always-failing remote has exhausted a call
C1_Witness ==
    \E c \in Calls :
        /\ Exhausted(c)
        /\ Attempts(c) = DefaultRetryCount
        /\ \A i \in 1..Attempts(c) : ~Events(c, "connect")[i].ok

---------------------------------------------------------------------------
(* C2 *)

\* C2: if the remote fails on attempts 1..k-1 and succeeds on attempt k <=
\* retryCount, build(Standalone) returns the handle created by attempt k,
\* having made exactly k attempts: a successful attempt is always the last
\* attempt in the log, no attempt follows it, at most retryCount attempts
\* are made, the call then ends by returning, and the handle returned is the
\* one handle created for this call.
C2_SuccessOnAttemptK ==
    \A c \in Calls :
        Remote(c) =>
            LET connects == Events(c, "connect")
                k == Len(connects)
            IN  /\ k <= DefaultRetryCount
                /\ \A i \in 1..k : connects[i].ok => i = k
                /\ (k > 0 /\ connects[k].ok) =>
                      /\ call[c].pc \in {"config", "done"}
                      /\ Cardinality(HandlesOf(c)) = 1
                      /\ call[c].driver \in HandlesOf(c)
                      /\ log[c][Len(log[c])] = connects[k]
                      /\ call[c].pc = "done" => call[c].result = Return(call[c].driver)
                /\ Succeeded(c) => (k > 0 /\ connects[k].ok)

\* the remote failed retryCount - 1 times and then succeeded
C2_Witness ==
    \E c \in Calls :
        /\ Remote(c)
        /\ Succeeded(c)
        /\ Attempts(c) = DefaultRetryCount
        /\ Events(c, "connect")[DefaultRetryCount].ok
        /\ call[c].result.driver \in HandlesOf(c)

---------------------------------------------------------------------------
(* C3 *)

\* C3: every build(Standalone) call that has started ends, and it ends
\* either by returning a live handle or by raising RemoteDriverTimeout
\* (never by returning None); it never makes more than retryCount attempts.
C3_RemoteBuildTerminates ==
    /\ \A c \in Calls :
          Remote(c) ~> (Remote(c) /\ (Succeeded(c) \/ Exhausted(c)))
    /\ [](\A c \in Calls : Attempts(c) <= DefaultRetryCount)

\* a call ended in exhaustion after sleeping retryCount times
C3_Witness ==
    \E c \in Calls :
        /\ Exhausted(c)
        /\ Len(Events(c, "sleep")) = DefaultRetryCount

---------------------------------------------------------------------------
(* C4 *)

\* what _config_driver must have done to a handle that is handed out
Configured(h) ==
    /\ h.implicitly_wait_calls = (IF self.implicit_wait_time > 0 THEN 1 ELSE 0)
    /\ h.implicit_wait = (IF self.implicit_wait_time > 0 THEN self.implicit_wait_time ELSE 0)
    /\ h.execute_script_calls = (IF self.stealth_mode THEN 1 ELSE 0)

\* no configuration step has touched the handle
Untouched(h) == h.implicitly_wait_calls = 0 /\ h.execute_script_calls = 0

\* C4: when build() returns a handle (any strategy), implicitly_wait has
\* been called on it exactly once if implicit_wait_time > 0 and never
\* otherwise, and the stealth script has run on it exactly once if
\* stealth_mode is set and never otherwise; before that the handle is
\* untouched; and a failed attempt gets no configuration step: a handle
\* exists only for a successful connection or launch.
C4_ConfiguredExactlyOnce ==
    /\ \A c \in Calls :
          /\ Succeeded(c) =>
                /\ call[c].result.driver \in HandlesOf(c)
                /\ Configured(handles[call[c].result.driver])
          /\ Cardinality(HandlesOf(c)) =
                Len(SelectSeq(log[c], LAMBDA e : e.ev \in {"connect", "launch"} /\ e.ok))
    /\ \A h \in 1..Len(handles) :
          IF call[handles[h].owner].pc = "done"
          THEN Configured(handles[h])
          ELSE Untouched(handles[h])

\* a remote build succeeded after a failed attempt, with both configuration
\* steps requested
C4_Witness ==
    \E c \in Calls :
        /\ Remote(c)
        /\ Succeeded(c)
        /\ Attempts(c) >= 2
        /\ self.implicit_wait_time > 0
        /\ self.stealth_mode
        /\ handles[call[c].result.driver].implicitly_wait_calls = 1
        /\ handles[call[c].result.driver].execute_script_calls = 1

---------------------------------------------------------------------------
(* C5 *)

\* "http://localhost:<remote_port>"
LocalUrl(port) == [scheme |-> "http", host |-> "localhost", port |-> port]

\* C5: every connection attempt of build(Standalone) targets
\* http://localhost:<remote_port>, remote_port being the port the builder was
\* constructed with.
C5_AttemptsTargetRemotePort ==
    \A c \in Calls :
        \A i \in 1..Attempts(c) :
            Events(c, "connect")[i].arg = LocalUrl(self.remote_port)

---------------------------------------------------------------------------
(* C6 *)

\* C6: build() called with a value that is no DriverType member fails with
\* an UnsupportedStrategy error (it does not return, in particular not
\* None) and performs no launch, no connection attempt and no configuration.
C6_UnrecognizedStrategyFails ==
    \A c \in Calls :
        (call[c].pc = "done" /\ call[c].driver_type \notin DriverType) =>
            /\ call[c].result = Raise("UnsupportedStrategy")
            /\ log[c] = <<>>
            /\ HandlesOf(c) = {}

---------------------------------------------------------------------------
(* Reading a load() call *)

\* the load is the latest CookieStorage call that touched the location: no
\* save has started since, so the file is what the load found
LoadIsLatest == ld.pc # "idle" /\ ld.op > sv.op

\* the cookie list stored at the location (empty when nothing decodes)
Stored == IF file.exists /\ loads(file.bytes).ok THEN loads(file.bytes).value ELSE <<>>

\* the stored records add_cookie raises for in the load's session
RejectedStored == {i \in 1..Len(Stored) : Stored[i].name \in rejects[ld.driver]}

\* the load has called driver.refresh()
Refreshed == \E i \in 1..Len(ld.calls) : ld.calls[i].ev = "refresh"

---------------------------------------------------------------------------
(* C7 *)

\* C7: when add_cookie fails for a stored record, load skips that record,
\* still installs every other stored record, still refreshes if asked to,
\* and returns True.
C7_RejectedCookieIsSkipped ==
    (LoadIsLatest /\ ld.pc = "done" /\ RejectedStored # {}) =>
        /\ ld.result = CReturn(TRUE)
        /\ \A i \in 1..Len(Stored) : i \notin RejectedStored => Stored[i] \in jar[ld.driver]
        /\ ld.refresh => Refreshed

---------------------------------------------------------------------------
(* C8 *)

\* a successful save followed by a load into a fresh session, in a domain
\* context that accepts every captured cookie
SaveThenLoadFresh ==
    /\ sv.pc = "done"
    /\ sv.result = CReturn(TRUE)
    /\ LoadIsLatest
    /\ ld.pc = "done"
    /\ ld.before = {}
    /\ \A i \in 1..Len(sv.cookies) : sv.cookies[i].name \notin rejects[ld.driver]

\* C8 as stated: for every captured cookie set, the empty one included, the
\* following load installs an equal set and returns True.
C8_RoundTripEverySet ==
    SaveThenLoadFresh =>
        /\ jar[ld.driver] = Range(sv.cookies)
        /\ ld.result = CReturn(TRUE)

\* C8 amended: for every non-empty captured cookie set the following load
\* installs into the fresh session a set equal to the captured one and
\* returns True; for the empty set it installs nothing and returns False.
C8_RoundTripNonEmptySet ==
    SaveThenLoadFresh =>
        /\ jar[ld.driver] = Range(sv.cookies)
        /\ ld.result = CReturn(sv.cookies # <<>>)

\* two cookies were saved from one session and loaded into a fresh one
C8_Witness ==
    /\ SaveThenLoadFresh
    /\ Len(sv.cookies) = 2
    /\ sv.driver # ld.driver
    /\ jar[ld.driver] = Range(sv.cookies)
    /\ ld.result = CReturn(TRUE)

---------------------------------------------------------------------------
(* C9 *)

\* C9: when the file does not exist or decodes to an empty cookie set, load
\* returns False, calls neither add_cookie nor refresh (whatever the refresh
\* flag) and leaves the session's cookies as they were.
C9_NothingStoredNothingDone ==
    (LoadIsLatest /\ (~file.exists \/ (loads(file.bytes).ok /\ Stored = <<>>))) =>
        /\ ld.pc \in {"read", "done"}
        /\ ld.calls = <<>>
        /\ jar[ld.driver] = ld.before
        /\ ld.pc = "done" => ld.result = CReturn(FALSE)

\* a load with refresh requested found a stored empty cookie set, in a
\* session that holds cookies
C9_Witness ==
    /\ LoadIsLatest
    /\ ld.pc = "done"
    /\ file.exists
    /\ loads(file.bytes).ok
    /\ Stored = <<>>
    /\ ld.refresh
    /\ jar[ld.driver] # {}
    /\ ld.result = CReturn(FALSE)

---------------------------------------------------------------------------
(* C10 *)

\* C10: when the stored cookie set is non-empty and every insertion
\* succeeds, load calls add_cookie once for every stored cookie, in order,
\* then calls refresh exactly once iff refresh is true, never before the
\* last cookie has been installed, and returns True.
C10_InstallAllThenRefresh ==
    (LoadIsLatest /\ Stored # <<>> /\ RejectedStored = {}) =>
        LET adds == [i \in 1..Len(Stored) |-> DriverCall("add_cookie", Stored[i], TRUE)]
            done == adds \o (IF ld.refresh
                             THEN <<DriverCall("refresh", [name |-> "", value |-> ""], TRUE)>>
                             ELSE <<>>)
        IN  /\ Len(ld.calls) <= Len(done)
            /\ ld.calls = SubSeq(done, 1, Len(ld.calls))
            /\ Refreshed => Range(Stored) \subseteq jar[ld.driver]
            /\ ld.pc = "done" =>
                  /\ ld.calls = done
                  /\ Range(Stored) \subseteq jar[ld.driver]
                  /\ ld.result = CReturn(TRUE)

\* two stored cookies were installed and then the page was refreshed
C10_Witness ==
    /\ LoadIsLatest
    /\ ld.pc = "done"
    /\ Len(Stored) = 2
    /\ RejectedStored = {}
    /\ ld.refresh
    /\ Len(ld.calls) = 3
    /\ ld.calls[3].ev = "refresh"
    /\ ld.result = CReturn(TRUE)

---------------------------------------------------------------------------
(* C11 *)

\* the last save call succeeded
SaveSucceeded == sv.pc = "done" /\ sv.result = CReturn(TRUE)

\* the cookie list the file held when the last save began
StoredBefore ==
    IF sv.before.exists /\ loads(sv.before.bytes).ok
    THEN loads(sv.before.bytes).value
    ELSE <<>>

\* C11: save overwrites, it does not append: after a successful save,
\* whatever the location held before, the stored blob is exactly the pickle
\* of the cookies that save captured, and a following load (no insertion
\* failing) installs that snapshot and nothing of an earlier one.
C11_SaveOverwrites ==
    SaveSucceeded =>
        /\ file = FileWith(dumps(sv.cookies))
        /\ Stored = sv.cookies
        /\ (LoadIsLatest /\ ld.pc = "done" /\ RejectedStored = {}) =>
              /\ Range(sv.cookies) \subseteq jar[ld.driver]
              /\ jar[ld.driver] \subseteq Range(sv.cookies) \cup ld.before

\* a second save replaced a stored snapshot by a different non-empty one,
\* and the following load installed no cookie of the replaced snapshot
C11_Witness ==
    /\ SaveSucceeded
    /\ sv.cookies # <<>>
    /\ sv.before.exists
    /\ \E x \in Range(StoredBefore) : x \notin Range(sv.cookies) /\ x \notin jar[ld.driver]
    /\ LoadIsLatest
    /\ ld.pc = "done"
    /\ ld.result = CReturn(TRUE)
    /\ Range(sv.cookies) \subseteq jar[ld.driver]

---------------------------------------------------------------------------
(* C19 *)

\* C19: save reads the session's cookies before it touches the location:
\* until the cookies have been captured the file is as save found it, and
\* when driver.get_cookies() raises, save ends with that error and the file
\* is exactly as it was (neither truncated nor replaced).
C19_FailedCaptureLeavesFile ==
    /\ sv.pc = "open" => file = sv.before
    /\ (sv.pc = "done" /\ sv.result = CRaise("WebDriverException")) => file = sv.before

\* a save failed to read the cookies while a non-empty snapshot was stored
C19_Witness ==
    /\ sv.pc = "done"
    /\ sv.result = CRaise("WebDriverException")
    /\ sv.before.exists
    /\ StoredBefore # <<>>
    /\ file = sv.before

---------------------------------------------------------------------------
(* C18 *)

\* the bytes are one complete pickle of a cookie list
CompleteSnapshot(bytes) == loads(bytes).ok /\ bytes = dumps(loads(bytes).value)

\* C18: save's overwrite is not atomic for a concurrent load, but a load
\* that no save call overlaps (the two are serialized) always reads a
\* complete snapshot. (That an overlapping load can read a content that is
\* neither the previous snapshot nor the new one is C18_Witness.)
C18_SerializedLoadReadsSnapshot ==
    (ld.observed.read /\ ~ld.overlapped) => CompleteSnapshot(ld.observed.bytes)

\* a load read the file after a concurrent save had opened (truncated) it and
\* before the blob was written: what it read is neither the previous
\* snapshot nor the new one, and is no complete pickle
C18_Witness ==
    /\ sv.pc = "dump"
    /\ ld.overlapped
    /\ ld.observed.read
    /\ sv.before.exists
    /\ CompleteSnapshot(sv.before.bytes)
    /\ ld.observed.bytes # sv.before.bytes
    /\ ld.observed.bytes # dumps(sv.cookies)
    /\ ~CompleteSnapshot(ld.observed.bytes)
    /\ ld.pc = "done"
    /\ ld.result = CRaise("UnpicklingError")

---------------------------------------------------------------------------
(* C12 *)

\* a build(Chrome) or build(Chromium) call that has started
Local(c) == call[c].pc # "idle" /\ call[c].driver_type \in {"chrome", "chromium"}

\* C12: a local build calls the driver installer exactly once, keyed by the
\* variant (GOOGLE for Chrome, CHROMIUM for Chromium), and launches at most
\* once; it never sleeps, connects or opens the debug view; a failure of the
\* installer or of the launch ends the call at once with that error: no
\* second installer call or launch, and no handle is created or configured.
C12_LocalBuildNoRetry ==
    \A c \in Calls :
        Local(c) =>
            LET installs == Events(c, "install")
                launches == Events(c, "launch")
                key == IF call[c].driver_type = "chromium" THEN "CHROMIUM" ELSE "GOOGLE"
            IN  /\ Len(installs) <= 1
                /\ Len(launches) <= 1
                /\ Len(log[c]) = Len(installs) + Len(launches)
                /\ \A i \in 1..Len(installs) : installs[i].arg = key
                /\ call[c].pc # "install" => Len(installs) = 1
                /\ (Len(installs) = 1 /\ ~installs[1].ok) =>
                      /\ call[c].pc = "done"
                      /\ call[c].result = Raise("InstallError")
                      /\ launches = <<>>
                      /\ HandlesOf(c) = {}
                /\ (Len(launches) = 1 /\ ~launches[1].ok) =>
                      /\ call[c].pc = "done"
                      /\ call[c].result = Raise("LaunchError")
                      /\ log[c][1].ok
                      /\ HandlesOf(c) = {}

\* a Chromium build whose installer call succeeded and whose launch failed
C12_Witness ==
    \E c \in Calls :
        /\ call[c].pc = "done"
        /\ call[c].driver_type = "chromium"
        /\ Len(log[c]) = 2
        /\ log[c][1] = Event("install", "CHROMIUM", TRUE)
        /\ log[c][2].ev = "launch"
        /\ ~log[c][2].ok
        /\ call[c].result = Raise("LaunchError")

---------------------------------------------------------------------------
(* C13 *)

\* the call's log without its debug-view events
WithoutOpen(c) == SelectSeq(log[c], LAMBDA e : e.ev # "open")

\* C13: build(Standalone) opens the debug-view URL iff show_browser is set,
\* once per call however many attempts follow, and before the first
\* connection attempt; whether the opening succeeded changes nothing: the
\* retry loop starts with the full budget and the call's outcome is decided
\* by the connection attempts alone. Other strategies never open it.
C13_DebugViewOncePerBuild ==
    \A c \in Calls :
        LET opens == Events(c, "open") IN
        /\ ~Remote(c) => opens = <<>>
        /\ (Remote(c) /\ call[c].pc # "open") =>
              /\ Len(opens) = (IF self.show_browser THEN 1 ELSE 0)
              /\ Len(opens) = 1 =>
                    /\ log[c][1].ev = "open"
                    /\ log[c][1].arg = standalone_url
              /\ WithoutOpen(c) = <<>> =>
                    /\ call[c].pc = "connect"
                    /\ call[c].retry_count = DefaultRetryCount
              /\ call[c].pc = "done" =>
                    LET connects == Events(c, "connect") IN
                    /\ Succeeded(c) <=> connects[Len(connects)].ok
                    /\ Exhausted(c) <=>
                          /\ Len(connects) = DefaultRetryCount
                          /\ \A i \in 1..Len(connects) : ~connects[i].ok
        /\ (Remote(c) /\ call[c].pc = "open") => log[c] = <<>> /\ self.show_browser

\* a remote build whose debug view could not be opened, and which connected
\* at its second attempt
C13_Witness ==
    \E c \in Calls :
        /\ Succeeded(c)
        /\ Remote(c)
        /\ Len(log[c]) = 4
        /\ log[c][1].ev = "open"
        /\ ~log[c][1].ok
        /\ Attempts(c) = 2
        /\ Len(Events(c, "open")) = 1

---------------------------------------------------------------------------
(* C14 *)

\* C14: the error a build() call fails with names the strategy that was
\* requested, and the error of a remote exhaustion also carries the number
\* of connection attempts that were made.
C14_ErrorNamesStrategyAndAttempts ==
    \A c \in Calls :
        (call[c].pc = "done" /\ call[c].result.kind = "raise") =>
            LET args == Range(call[c].result.args) IN
            /\ call[c].driver_type \in args
            /\ call[c].result.exc = "RemoteDriverTimeout" =>
                  ToString(Attempts(c)) \in args

---------------------------------------------------------------------------
(* C15 *)

\* the arguments that go with in_container
ContainerArguments == {"--no-sandbox", "--disable-dev-shm-usage", "--disable-gpu"}

\* C15: the launch options a local build evaluates depend on the builder's
\* fields only: --headless iff not show_browser; the three container
\* arguments, together, iff container; the download-directory preference
\* iff download_directory is non-empty; the two automation-suppression
\* options iff stealth_mode; the user-agent argument iff agent is non-empty;
\* nothing else; and two evaluations on the same builder agree.
C15_LaunchOptionTranslation ==
    \A c \in Calls :
        Local(c) =>
            LET o == call[c].options
                args == Range(o.arguments)
                keys == {e.key : e \in o.experimental_options}
                N(b) == IF b THEN 1 ELSE 0
            IN  /\ "--headless" \in args <=> ~self.show_browser
                /\ \A a \in ContainerArguments : a \in args <=> self.container
                /\ "prefs" \in keys <=> self.download_directory \notin {"None", ""}
                /\ \A e \in o.experimental_options :
                      e.key = "prefs" => e.value = self.download_directory
                /\ "excludeSwitches" \in keys <=> self.stealth_mode
                /\ "useAutomationExtension" \in keys <=> self.stealth_mode
                /\ ("user-agent=" \o self.agent) \in args <=> self.agent # ""
                /\ Len(o.arguments) =
                      N(~self.show_browser) + 3 * N(self.container) + N(self.agent # "")
                /\ Cardinality(o.experimental_options) =
                      N(self.download_directory \notin {"None", ""}) + 2 * N(self.stealth_mode)
                /\ \A l \in 1..Len(log[c]) :
                      log[c][l].ev = "launch" => log[c][l].arg = o
                /\ \A h \in HandlesOf(c) : handles[h].options = o
                /\ \A d \in Calls : Local(d) => call[d].options = o

\* two local builds on a builder with show_browser off and container on,
\* both launched: each browser was started headless with the three
\* container arguments
C15_Witness ==
    /\ ~self.show_browser
    /\ self.container
    /\ \A c \in Calls :
          /\ Local(c)
          /\ HandlesOf(c) # {}
          /\ \A h \in HandlesOf(c) :
                {"--headless"} \cup ContainerArguments
                    \subseteq Range(handles[h].options.arguments)
    /\ call["c1"].driver_type # call["c2"].driver_type

---------------------------------------------------------------------------
(* C16 *)

\* number of the call's connection attempts that failed
FailedAttempts(c) == Len(SelectSeq(log[c], LAMBDA e : e.ev = "connect" /\ ~e.ok))

\* what holds of every state of two interleaved build(Standalone) calls
OwnBudgetOwnHandle ==
    \A c \in Calls :
        Remote(c) =>
            /\ Attempts(c) <= DefaultRetryCount
            /\ call[c].pc = "connect" =>
                  call[c].retry_count = DefaultRetryCount - FailedAttempts(c)
            /\ Exhausted(c) =>
                  /\ Attempts(c) = DefaultRetryCount
                  /\ FailedAttempts(c) = DefaultRetryCount
            /\ Succeeded(c) =>
                  /\ call[c].result.driver \in HandlesOf(c)
                  /\ HandlesOf(c) = {call[c].result.driver}
                  /\ \A d \in Calls \ {c} :
                        Succeeded(d) => call[d].result.driver # call[c].result.driver

\* C16: no step of a build() call changes the builder's fields; and of two
\* interleaved build(Standalone) calls on one builder each has its own
\* retry budget (the attempts left to a call are the default budget less
\* its own failures, and it is exhausted only after that many failures of
\* its own) and each successful call returns a handle of its own.
C16_StatelessPerCall ==
    /\ [][self' = self]_vars
    /\ []OwnBudgetOwnHandle

\* two interleaved remote builds that both connected at their last attempt:
\* four failures in all, and two distinct handles
C16_Witness ==
    /\ Succeeded("c1")
    /\ Succeeded("c2")
    /\ Remote("c1")
    /\ Remote("c2")
    /\ Attempts("c1") = DefaultRetryCount
    /\ Attempts("c2") = DefaultRetryCount
    /\ call["c1"].result.driver # call["c2"].result.driver

---------------------------------------------------------------------------
(* C17 *)

RECURSIVE SumSeq(_)
\* the sum of a sequence of numbers
SumSeq(q) == IF q = <<>> THEN 0 ELSE q[1] + SumSeq(Tail(q))

\* the durations the call has slept, in order
SleepDurations(c) ==
    LET sleeps == Events(c, "sleep") IN [i \in 1..Len(sleeps) |-> sleeps[i].arg]

---------------------------------------------------------------------------
(* C20 *)

\* C20: build(Standalone) never evaluates or sends the launch options: each
\* connection is requested with the url alone, so the remote session gets
\* no headless, container, download-directory, user-agent or stealth launch
\* option whatever the builder's fields are; the handle a remote build
\* returns is determined by implicit_wait_time and stealth_mode (the
\* post-creation configuration), and show_browser only decides whether the
\* debug view is opened.
C20_RemoteIgnoresLaunchOptions ==
    \A c \in Calls :
        Remote(c) =>
            /\ call[c].options = NoOptions
            /\ \A i \in 1..Len(log[c]) :
                  /\ log[c][i].ev \in {"open", "connect", "sleep"}
                  /\ log[c][i].ev = "connect" => log[c][i].arg = STANDALONE_LOCAL_URL
            /\ \A h \in HandlesOf(c) :
                  /\ handles[h].options.arguments = <<>>
                  /\ handles[h].options.experimental_options = {}
            /\ Len(Events(c, "open")) <= (IF self.show_browser THEN 1 ELSE 0)
            /\ Succeeded(c) =>
                  handles[call[c].result.driver] =
                      [owner |-> c,
                       options |-> NoOptions,
                       implicit_wait |->
                           IF self.implicit_wait_time > 0 THEN self.implicit_wait_time ELSE 0,
                       implicitly_wait_calls |->
                           IF self.implicit_wait_time > 0 THEN 1 ELSE 0,
                       execute_script_calls |->
                           IF self.stealth_mode THEN 1 ELSE 0]

\* a remote build that succeeded on a builder whose translation of the
\* launch options is not empty in any part: the session has none of them
C20_Witness ==
    \E c \in Calls :
        /\ Remote(c)
        /\ Succeeded(c)
        /\ ~self.show_browser
        /\ self.container
        /\ self.stealth_mode
        /\ self.agent # ""
        /\ self.download_directory \notin {"None", ""}
        /\ Len(_chrome_options(self).arguments) = 5
        /\ handles[call[c].result.driver].options = NoOptions
        /\ handles[call[c].result.driver].execute_script_calls = 1

===========================================================================
